---- MODULE Spec2Model ----
(***************************************************************************)
(* Model of the request execution and error normalisation layer of the     *)
(* DJD Agent Score MCP server: src/src/client.ts (configuration store,     *)
(* apiRequest, ApiError), the tool handlers of src/src/tools.ts that call  *)
(* it, and the startup configuration of the entry point.                   *)
(*                                                                         *)
(* One action is one run of the JavaScript event loop: the code that runs  *)
(* from the start of a task (a tool invocation, the arrival of response    *)
(* headers, the arrival of the body, a transport failure, a timer firing)  *)
(* to the next await that has to wait for the outside world.               *)
(*                                                                         *)
(* Strings are sequences of tokens, so that a template literal is a        *)
(* concatenation and String.includes is a search for a subsequence.        *)
(***************************************************************************)
EXTENDS Integers, Sequences, FiniteSets, TLC

VARIABLES config, calls, invocations, provided

vars == <<config, calls, invocations, provided>>

\* config       the module-level configuration of client.ts
\* calls        the call of apiRequest of each invocation slot
\* invocations  the tool handler of each invocation slot
\* provided     for each field of the configuration, the value of the latest
\*              setConfig that provided it (the default before any)

\* ---------------------------------------------------------------- bounds
\* Number of invocation slots (tool invocations in one run).
MaxCalls == 2

Slots == 1..MaxCalls

\* ------------------------------------------------------- string helpers
\* haystack.includes(needle)
Includes(haystack, needle) ==
    \E i \in 1..(Len(haystack) + 1) :
        /\ i + Len(needle) - 1 <= Len(haystack)
        /\ SubSeq(haystack, i, i + Len(needle) - 1) = needle

\* `${n}` for a number
NumToString(n) == ToString(n)

\* ------------------------------------------------------------ JSON model
\* A JSON value of the upstream API is a flat object: a sequence of
\* <<key, value>> pairs in insertion order.  Its serialisation is the token
\* sequence  { "k" : "v" , "k" : "v" }.
RECURSIVE StringifyPairs(_)
StringifyPairs(pairs) ==
    IF pairs = <<>> THEN <<>>
    ELSE LET p == Head(pairs)
             rest == Tail(pairs)
         IN  <<"\"", p[1], "\"", ":", "\"", p[2], "\"">>
                 \o (IF rest = <<>> THEN <<>> ELSE <<",">> \o StringifyPairs(rest))

\* JSON.stringify(value) for an object value
JsonStringify(obj) == <<"{">> \o StringifyPairs(obj) \o <<"}">>

\* Parser of the token sequence between the braces: a result
\* [ok, value]; ok = FALSE is a SyntaxError.
RECURSIVE ParsePairs(_)
ParsePairs(toks) ==
    IF Len(toks) < 7 THEN [ok |-> FALSE, value |-> <<>>]
    ELSE IF ~(/\ toks[1] = "\"" /\ toks[3] = "\"" /\ toks[4] = ":"
              /\ toks[5] = "\"" /\ toks[7] = "\"")
         THEN [ok |-> FALSE, value |-> <<>>]
    ELSE IF Len(toks) = 7
         THEN [ok |-> TRUE, value |-> << <<toks[2], toks[6]>> >>]
    ELSE IF toks[8] # ","
         THEN [ok |-> FALSE, value |-> <<>>]
    ELSE LET rest == ParsePairs(SubSeq(toks, 9, Len(toks)))
         IN  IF rest.ok
             THEN [ok |-> TRUE, value |-> << <<toks[2], toks[6]>> >> \o rest.value]
             ELSE [ok |-> FALSE, value |-> <<>>]

\* JSON.parse(text)
JsonParse(text) ==
    IF Len(text) < 2 \/ text[1] # "{" \/ text[Len(text)] # "}"
    THEN [ok |-> FALSE, value |-> <<>>]
    ELSE IF Len(text) = 2 THEN [ok |-> TRUE, value |-> <<>>]
    ELSE ParsePairs(SubSeq(text, 2, Len(text) - 1))


\* --------------------------------------------------- configuration store
DefaultTimeoutMs == 10000

FallbackBaseUrl == <<"https:", "//", "djd-agent-score.fly.dev">>

\* Values of the environment variable DJD_BASE_URL; <<>> is unset (or empty).
\* "example.com" has no scheme: it is not an absolute URL.
EnvBaseUrls == { <<>>, <<"https:", "//", "api.example">>, <<"example.com">> }

\* Base URLs a caller of setConfig may provide.
BaseUrls == { FallbackBaseUrl, <<"https:", "//", "api.example">>, <<"example.com">> }

\* Timeouts a caller of setConfig may provide; 0 is what the entry point
\* passes when DJD_TIMEOUT_MS is "0" (parseInt is not range-checked).
TimeoutValues == { DefaultTimeoutMs, 5000, 50, 0 }

\* const DEFAULT_CONFIG, with process.env.DJD_BASE_URL = env
DEFAULT_CONFIG(env) ==
    [baseUrl |-> IF env # <<>> THEN env ELSE FallbackBaseUrl,
     timeoutMs |-> DefaultTimeoutMs]

\* Partial<ServerConfig>: any subset of the fields
Overrides ==
    { [f \in {} |-> 0] }
      \cup { [baseUrl |-> b] : b \in BaseUrls }
      \cup { [timeoutMs |-> t] : t \in TimeoutValues }
      \cup { [baseUrl |-> b, timeoutMs |-> t] : b \in BaseUrls, t \in TimeoutValues }

\* setConfig that merges the overrides over the defaults instead of over
\* the current configuration.
setConfig_OverDefaults(cfg, overrides) ==
    [f \in (DOMAIN cfg) \cup (DOMAIN overrides) |->
        IF f \in DOMAIN overrides THEN overrides[f] ELSE DEFAULT_CONFIG(<<>>)[f]]

\* { ...cfg, ...overrides }
setConfig(cfg, overrides) ==
    [f \in (DOMAIN cfg) \cup (DOMAIN overrides) |->
        IF f \in DOMAIN overrides THEN overrides[f] ELSE cfg[f]]

\* { ...config }
getConfig(cfg) == [f \in DOMAIN cfg |-> cfg[f]]

\* ------------------------------------------------------------------ URL
\* new URL(path, base) throws a TypeError unless base parses as an
\* absolute URL
UrlParses(base) ==
    /\ Len(base) >= 3
    /\ base[1] \in {"https:", "http:"}
    /\ base[2] = "//"

RECURSIVE QueryString(_)
QueryString(params) ==
    IF params = <<>> THEN <<>>
    ELSE <<Head(params)[1], "=", Head(params)[2]>>
            \o (IF Tail(params) = <<>> THEN <<>> ELSE <<"&">> \o QueryString(Tail(params)))

\* new URL(path, base), then searchParams.set for each entry of params,
\* then url.toString(); every path of the catalog is absolute ("/...") and
\* every base is an origin, so the path replaces the (empty) path of base.
UrlToString(path, base, params) ==
    base \o path \o (IF params = <<>> THEN <<>> ELSE <<"?">> \o QueryString(params))

\* ------------------------------------------------------------- JS values
\* A value handed around by the code: undefined, a string, a number or an
\* object (a sequence of <<key, string>> pairs).
Undefined == [kind |-> "undefined", str |-> <<>>, num |-> 0, obj |-> <<>>]
Str(text) == [kind |-> "string", str |-> text, num |-> 0, obj |-> <<>>]
Num(n) == [kind |-> "number", str |-> <<>>, num |-> n, obj |-> <<>>]
Obj(pairs) == [kind |-> "object", str |-> <<>>, num |-> 0, obj |-> pairs]

\* ToBoolean(v), as in  body ? ... : undefined
Truthy(v) ==
    CASE v.kind = "undefined" -> FALSE
      [] v.kind = "string" -> v.str # <<>>
      [] v.kind = "number" -> v.num # 0
      [] v.kind = "object" -> TRUE

\* JSON.stringify(v) for a defined v
StringifyValue(v) ==
    CASE v.kind = "string" -> <<"\"">> \o v.str \o <<"\"">>
      [] v.kind = "number" -> <<NumToString(v.num)>>
      [] v.kind = "object" -> JsonStringify(v.obj)
      [] OTHER -> <<>>


\* ---------------------------------------------------------------- errors
\* A thrown value: its class, its name, its message, the statusCode of an
\* ApiError (NoStatusCode on every other class) and who threw it.
NoStatusCode == -1

\* new ApiError(message, statusCode)
ApiError(message, statusCode) ==
    [cls |-> "ApiError", name |-> "ApiError", message |-> message,
     statusCode |-> statusCode, thrownBy |-> "apiRequest"]

\* new URL(...) on an unparsable base
InvalidUrlError ==
    [cls |-> "TypeError", name |-> "TypeError", message |-> <<"Invalid URL">>,
     statusCode |-> NoStatusCode, thrownBy |-> "URL"]

\* the rejection of fetch, or of a body read, after controller.abort()
AbortError ==
    [cls |-> "DOMException", name |-> "AbortError",
     message |-> <<"This operation was aborted">>,
     statusCode |-> NoStatusCode, thrownBy |-> "abort"]

\* the rejection of fetch on a connection or DNS failure
FetchFailedError ==
    [cls |-> "TypeError", name |-> "TypeError", message |-> <<"fetch failed">>,
     statusCode |-> NoStatusCode, thrownBy |-> "transport"]

\* the rejection of a body read when the connection drops
TerminatedError ==
    [cls |-> "TypeError", name |-> "TypeError", message |-> <<"terminated">>,
     statusCode |-> NoStatusCode, thrownBy |-> "transport"]

\* the rejection of response.json() on a body that is not JSON
JsonSyntaxError ==
    [cls |-> "SyntaxError", name |-> "SyntaxError",
     message |-> <<"Unexpected token in JSON">>,
     statusCode |-> NoStatusCode, thrownBy |-> "JSON.parse"]

NoError ==
    [cls |-> "none", name |-> "none", message |-> <<>>,
     statusCode |-> NoStatusCode, thrownBy |-> "none"]

\* error instanceof Error ? error.message : String(error)
ErrorText(error) == error.message

PaymentRequiredMessage(text) ==
    <<"Payment required (HTTP 402). This is a paid endpoint that requires x402 payment. ",
      "Your agent framework must handle the 402 response and provide payment. ",
      "Details: ">> \o text

\* HttpErrorMessage that leaves the body text out.
HttpErrorMessage_NoBody(status, text) ==
    <<"API request failed with status ", NumToString(status)>>

HttpErrorMessage(status, text) ==
    <<"API request failed with status ", NumToString(status), ": ">> \o text

TimeoutMessage(timeoutMs) ==
    <<"Request timed out after ", NumToString(timeoutMs),
      "ms. Try again or increase timeout.">>

NetworkErrorMessage(error) == <<"Network error: ">> \o ErrorText(error)

\* CatchBlock without the branch for the abort of the timeout.
CatchBlock_NoAbortBranch(error, cfg) ==
    IF error.cls = "ApiError" THEN error
    ELSE ApiError(NetworkErrorMessage(error), 0)

\* The catch block of apiRequest: cfg is the module-level config when the
\* block runs.
CatchBlock(error, cfg) ==
    IF error.cls = "ApiError" THEN error
    ELSE IF error.cls = "DOMException" /\ error.name = "AbortError"
         THEN ApiError(TimeoutMessage(cfg.timeoutMs), 0)
    ELSE ApiError(NetworkErrorMessage(error), 0)

\* formatError(error)
formatError(error) ==
    IF error.cls = "ApiError" THEN error.message
    ELSE <<"Unexpected error: ">> \o ErrorText(error)


\* ------------------------------------------------- request descriptors
\* RequestOptions: method is "undefined" when the caller leaves it out;
\* params is a sequence of <<key, value>> entries (<<>> when left out: a
\* missing mapping and an empty one add nothing to the URL); body is a JS
\* value.
Wallets == { "0xAAAA" }

Tools == { "score_basic", "report_fraud", "get_badge" }

\* The descriptor each tool handler passes to apiRequest.
ToolDescriptor(tool, wallet) ==
    CASE tool = "score_basic" ->
            [method |-> "undefined", path |-> <<"/v1/score/basic">>,
             params |-> << <<"wallet", wallet>> >>, body |-> Undefined]
      [] tool = "report_fraud" ->
            [method |-> "POST", path |-> <<"/v1/report">>, params |-> <<>>,
             body |-> Obj(<< <<"wallet", wallet>>, <<"txHashes", "0xTX">>,
                             <<"evidence", "double spend">> >>)]
      [] tool = "get_badge" ->
            [method |-> "undefined", path |-> <<"/v1/badge/", wallet, ".svg">>,
             params |-> <<>>, body |-> Undefined]

\* Descriptors of a caller that uses the exported apiRequest directly.
DirectDescriptors ==
    { [method |-> "POST", path |-> <<"/v1/report">>, params |-> <<>>, body |-> Num(0)] }

\* ------------------------------------------------------------ responses
Statuses == { 200, 402, 404, 500 }

\* response.ok
ResponseOk(status) == status >= 200 /\ status <= 299

\* The content-type header of a response: absent, or its value.
NoContentType == [present |-> FALSE, value |-> <<>>]
ContentType(value) == [present |-> TRUE, value |-> value]

ContentTypes ==
    { NoContentType,
      ContentType(<<"application/json">>),
      ContentType(<<"application/json", "; charset=utf-8">>),
      ContentType(<<"image/svg+xml">>) }

\* The values the upstream serialises into a JSON body.
Fixtures ==
    { << <<"instructions", "pay 0.10 USDC">> >>,
      << <<"score", "850">>, <<"tier", "Trusted">> >> }

\* Body texts of a response.
Bodies == { JsonStringify(v) : v \in Fixtures } \cup { <<"<svg/>">> }

\* ----------------------------------------------------------- call state
NoRequest ==
    [sent |-> FALSE, url |-> <<>>, method |-> "none",
     contentType |-> <<>>, accept |-> <<>>, hasBody |-> FALSE, body |-> <<>>]

\* The result of a call: pending, a returned payload or a thrown error.
Pending == [t |-> "pending", payload |-> Undefined, error |-> NoError]
Return(payload) == [t |-> "return", payload |-> payload, error |-> NoError]
Throw(error) == [t |-> "throw", payload |-> Undefined, error |-> error]

\* A call of apiRequest that has not started.
\*   pc        where the call is: "idle", awaiting "fetch", awaiting the body
\*             ("text402", "textError", "json", "text") or "done"
\*   url       url.toString()
\*   timer     the timer of setTimeout: "none", "pending", "fired", "cleared"
\*   timerMs   the delay the timer was armed with
\*   aborted   controller.signal.aborted
\*   request   what was handed to fetch; fetches counts the calls of fetch
\*   bodyRead  the await of response.text() / response.json() was resumed
\*             with the body bodyText
\*   caught    the error the catch block received
IdleCall ==
    [pc |-> "idle", opts |-> [method |-> "undefined", path |-> <<>>,
                              params |-> <<>>, body |-> Undefined],
     url |-> <<>>, timer |-> "none", timerMs |-> 0, aborted |-> FALSE,
     request |-> NoRequest, fetches |-> 0,
     status |-> 0, contentType |-> NoContentType,
     bodyRead |-> FALSE, bodyText |-> <<>>,
     jsonCalled |-> FALSE, caught |-> NoError, outcome |-> Pending]

\* clearTimeout at the end of the try block instead of in finally.
Finally_OnlyOnReturn(call) ==
    [call EXCEPT !.timer = IF @ = "pending" /\ call.outcome.t = "return"
                           THEN "cleared" ELSE @]

\* finally { clearTimeout(timer) }: a timer that has fired stays fired.
Finally(call) ==
    [call EXCEPT !.timer = IF @ = "pending" THEN "cleared" ELSE @]

\* The call returns payload from inside the try block.
ReturnFromTry(call, payload) ==
    Finally([call EXCEPT !.pc = "done", !.outcome = Return(payload)])

\* ThrowInTry that dispatches the request again after a transport failure.
ThrowInTry_Retry(call, error, cfg) ==
    IF error.thrownBy = "transport" /\ call.fetches < 2
    THEN [call EXCEPT !.pc = "fetch", !.fetches = @ + 1]
    ELSE Finally([call EXCEPT !.pc = "done", !.caught = error,
                              !.outcome = Throw(CatchBlock(error, cfg))])

\* error is thrown inside the try block, with cfg the configuration then.
ThrowInTry(call, error, cfg) ==
    Finally([call EXCEPT !.pc = "done", !.caught = error,
                         !.outcome = Throw(CatchBlock(error, cfg))])

\* apiRequest(opts) up to its first await, with cfg the module-level config.
ApiRequestStart(opts, cfg) ==
    LET method == IF opts.method = "undefined" THEN "GET" ELSE opts.method
    IN  IF ~UrlParses(cfg.baseUrl)
        THEN \* new URL throws before the timer is armed and outside the try
             [IdleCall EXCEPT !.pc = "done", !.opts = opts,
                              !.outcome = Throw(InvalidUrlError)]
        ELSE [IdleCall EXCEPT
                !.pc = "fetch", !.opts = opts,
                !.url = UrlToString(opts.path, cfg.baseUrl, opts.params),
                !.timer = "pending", !.timerMs = cfg.timeoutMs,
                !.request = [sent |-> TRUE,
                             url |-> UrlToString(opts.path, cfg.baseUrl, opts.params),
                             method |-> method,
                             contentType |-> <<"application/json">>,
                             accept |-> <<"application/json">>,
                             hasBody |-> Truthy(opts.body),
                             body |-> IF Truthy(opts.body)
                                      THEN StringifyValue(opts.body) ELSE <<>>],
                !.fetches = 1]

\* AfterHeaders that takes a body for JSON only when the content type is
\* exactly "application/json".
AfterHeaders_ExactJson(status, contentType) ==
    IF status = 402 THEN "text402"
    ELSE IF ~ResponseOk(status) THEN "textError"
    ELSE IF contentType.present /\ contentType.value = <<"application/json">>
         THEN "json" ELSE "text"

\* AfterHeaders that takes a body without a content type for JSON.
AfterHeaders_JsonByDefault(status, contentType) ==
    IF status = 402 THEN "text402"
    ELSE IF ~ResponseOk(status) THEN "textError"
    ELSE IF ~contentType.present THEN "json"
    ELSE IF Includes(contentType.value, <<"application/json">>) THEN "json" ELSE "text"

\* AfterHeaders without the branch for status 402.
AfterHeaders_No402(status, contentType) ==
    IF ~ResponseOk(status) THEN "textError"
    ELSE LET ct == IF contentType.present /\ contentType.value # <<>>
                   THEN contentType.value ELSE <<>>
         IN  IF Includes(ct, <<"application/json">>) THEN "json" ELSE "text"

\* Where the call waits after fetch resolved with (status, contentType).
AfterHeaders(status, contentType) ==
    IF status = 402 THEN "text402"
    ELSE IF ~ResponseOk(status) THEN "textError"
    ELSE LET ct == IF contentType.present /\ contentType.value # <<>>
                   THEN contentType.value ELSE <<>>
         IN  IF Includes(ct, <<"application/json">>) THEN "json" ELSE "text"

\* The call resumes with the whole body read.
AfterBody(call, text, cfg) ==
    LET c2 == [call EXCEPT !.bodyRead = TRUE, !.bodyText = text]
    IN  CASE call.pc = "text402" ->
                ThrowInTry(c2, ApiError(PaymentRequiredMessage(text), 402), cfg)
          [] call.pc = "textError" ->
                ThrowInTry(c2, ApiError(HttpErrorMessage(call.status, text),
                                        call.status), cfg)
          [] call.pc = "json" ->
                LET parsed == JsonParse(text)
                    c3 == [c2 EXCEPT !.jsonCalled = TRUE]
                IN  IF parsed.ok THEN ReturnFromTry(c3, Obj(parsed.value))
                    ELSE ThrowInTry(c3, JsonSyntaxError, cfg)
          [] call.pc = "text" ->
                ReturnFromTry(c2, Str(text))


\* ------------------------------------------------------------ tool layer
\* JSON.stringify(value, null, 2)
RECURSIVE PrettyPairs(_, _)
PrettyPairs(pairs, indent) ==
    IF pairs = <<>> THEN <<>>
    ELSE <<"\n", indent, "\"", Head(pairs)[1], "\"", ": ", "\"", Head(pairs)[2], "\"">>
            \o (IF Tail(pairs) = <<>> THEN <<>>
                ELSE <<",">> \o PrettyPairs(Tail(pairs), indent))

PrettyValue(v, outer, inner) ==
    CASE v.kind = "string" -> <<"\"">> \o v.str \o <<"\"">>
      [] v.kind = "number" -> <<NumToString(v.num)>>
      [] v.kind = "object" ->
            IF v.obj = <<>> THEN <<"{}">>
            ELSE <<"{">> \o PrettyPairs(v.obj, inner) \o <<"\n", outer, "}">>
      [] OTHER -> <<>>

NoEnvelope == [set |-> FALSE, isError |-> FALSE, text |-> <<>>]

\* ok(text)
ok(text) == [set |-> TRUE, isError |-> FALSE, text |-> text]

\* err(error)
err(error) == [set |-> TRUE, isError |-> TRUE, text |-> formatError(error)]

\* An invocation slot: a tool handler ("direct" is a caller of the exported
\* apiRequest that is not a tool), how often it called apiRequest, the
\* badgeUrl of get_badge and the envelope the handler returned.
IdleInvocation ==
    [phase |-> "idle", tool |-> "none", apiCalls |-> 0, badgeUrl |-> <<>>,
     envelope |-> NoEnvelope]

\* The text of the success envelope of a tool.
SuccessText(inv, data) ==
    IF inv.tool = "get_badge"
    THEN <<"{", "\n", "  ", "\"", "badgeUrl", "\"", ": ", "\"">> \o inv.badgeUrl
            \o <<"\"", ",", "\n", "  ", "\"", "svg", "\"", ": ">>
            \o PrettyValue(data, "  ", "    ") \o <<"\n", "}">>
    ELSE PrettyValue(data, "", "  ")

\* HandlerResume whose catch handles an ApiError only: anything else leaves
\* the handler as an exception, without an envelope.
HandlerResume_OnlyApiError(inv, outcome) ==
    IF inv.tool = "direct" THEN [inv EXCEPT !.phase = "returned"]
    ELSE IF outcome.t = "return"
         THEN [inv EXCEPT !.phase = "returned",
                          !.envelope = ok(SuccessText(inv, outcome.payload))]
    ELSE IF outcome.error.cls = "ApiError"
         THEN [inv EXCEPT !.phase = "returned", !.envelope = err(outcome.error)]
    ELSE [inv EXCEPT !.phase = "returned"]

\* The handler resumes after its await of apiRequest: try / catch around it.
HandlerResume(inv, outcome) ==
    IF inv.tool = "direct" THEN [inv EXCEPT !.phase = "returned"]
    ELSE IF outcome.t = "return"
         THEN [inv EXCEPT !.phase = "returned",
                          !.envelope = ok(SuccessText(inv, outcome.payload))]
         ELSE [inv EXCEPT !.phase = "returned", !.envelope = err(outcome.error)]

\* ------------------------------------------------------------- behaviour
Init ==
    /\ \E env \in EnvBaseUrls :
          /\ config = DEFAULT_CONFIG(env)
          /\ provided = DEFAULT_CONFIG(env)
    /\ calls = [c \in Slots |-> IdleCall]
    /\ invocations = [c \in Slots |-> IdleInvocation]

\* The call of slot c moves to call; a completed call resumes its handler
\* in the same turn of the event loop.
Settle(c, call) ==
    /\ calls' = [calls EXCEPT ![c] = call]
    /\ invocations' =
         IF call.pc = "done"
         THEN [invocations EXCEPT ![c] = HandlerResume(@, call.outcome)]
         ELSE invocations

\* The entry point, or any importer of client.ts, calls setConfig(overrides).
SetConfig(overrides) ==
    /\ config' = setConfig(config, overrides)
    /\ provided' = [f \in DOMAIN provided |->
                        IF f \in DOMAIN overrides THEN overrides[f] ELSE provided[f]]
    /\ UNCHANGED <<calls, invocations>>

\* The host invokes a tool on validated input: the handler runs up to the
\* first await of apiRequest.
Invoke(c, tool, wallet) ==
    /\ invocations[c].phase = "idle"
    /\ LET badgeUrl == IF tool = "get_badge"
                       THEN getConfig(config).baseUrl \o <<"/v1/badge/", wallet, ".svg">>
                       ELSE <<>>
           inv == [IdleInvocation EXCEPT !.phase = "running", !.tool = tool,
                                         !.apiCalls = 1, !.badgeUrl = badgeUrl]
           call == ApiRequestStart(ToolDescriptor(tool, wallet), config)
       IN  /\ calls' = [calls EXCEPT ![c] = call]
           /\ invocations' =
                [invocations EXCEPT ![c] =
                    IF call.pc = "done" THEN HandlerResume(inv, call.outcome) ELSE inv]
    /\ UNCHANGED <<config, provided>>

\* A caller other than a tool calls apiRequest(opts).
DirectCall(c, opts) ==
    /\ invocations[c].phase = "idle"
    /\ LET inv == [IdleInvocation EXCEPT !.phase = "running", !.tool = "direct",
                                         !.apiCalls = 1]
           call == ApiRequestStart(opts, config)
       IN  /\ calls' = [calls EXCEPT ![c] = call]
           /\ invocations' =
                [invocations EXCEPT ![c] =
                    IF call.pc = "done" THEN HandlerResume(inv, call.outcome) ELSE inv]
    /\ UNCHANGED <<config, provided>>

\* fetch resolves with the response headers.
ResponseHeaders(c, status, contentType) ==
    /\ calls[c].pc = "fetch"
    /\ Settle(c, [calls[c] EXCEPT !.status = status, !.contentType = contentType,
                                  !.pc = AfterHeaders(status, contentType)])
    /\ UNCHANGED <<config, provided>>

\* response.text() or response.json() has read the whole body.
BodyArrives(c, text) ==
    /\ calls[c].pc \in {"text402", "textError", "json", "text"}
    /\ Settle(c, AfterBody(calls[c], text, config))
    /\ UNCHANGED <<config, provided>>

\* The transport fails: fetch, or the body read, rejects.
TransportFails(c) ==
    /\ calls[c].pc \in {"fetch", "text402", "textError", "json", "text"}
    /\ Settle(c, ThrowInTry(calls[c],
                            IF calls[c].pc = "fetch" THEN FetchFailedError
                            ELSE TerminatedError,
                            config))
    /\ UNCHANGED <<config, provided>>

\* One AbortController for every call of every slot.
Controller_Shared(c) == 1

\* const controller = new AbortController(): each call creates its own, and
\* hands its signal to its own fetch.
Controller(c) == c

InFlight(call) == call.pc \in {"fetch", "text402", "textError", "json", "text"}

\* The timer of slot c fires: controller.abort() rejects, with an AbortError,
\* the pending await of every call whose fetch holds the signal of that
\* controller.
TimerFires(c) ==
    /\ calls[c].timer = "pending"
    /\ LET after(d) ==
               IF d = c
               THEN ThrowInTry([calls[c] EXCEPT !.timer = "fired", !.aborted = TRUE],
                               AbortError, config)
               ELSE IF Controller(d) = Controller(c) /\ InFlight(calls[d])
               THEN ThrowInTry([calls[d] EXCEPT !.aborted = TRUE], AbortError, config)
               ELSE calls[d]
       IN  /\ calls' = [d \in Slots |-> after(d)]
           /\ invocations' =
                [d \in Slots |->
                    IF after(d).pc = "done" /\ calls[d].pc # "done"
                    THEN HandlerResume(invocations[d], after(d).outcome)
                    ELSE invocations[d]]
    /\ UNCHANGED <<config, provided>>

\* The host has received the result of the invocation of slot c: the slot
\* serves the next invocation.
Release(c) ==
    /\ invocations[c].phase = "returned"
    /\ calls' = [calls EXCEPT ![c] = IdleCall]
    /\ invocations' = [invocations EXCEPT ![c] = IdleInvocation]
    /\ UNCHANGED <<config, provided>>

\* The slots of the sequential specification.
MainSlots == { 1 }

Next ==
    \/ \E ov \in Overrides : SetConfig(ov)
    \/ \E c \in MainSlots, tool \in Tools, wallet \in Wallets : Invoke(c, tool, wallet)
    \/ \E c \in MainSlots, opts \in DirectDescriptors : DirectCall(c, opts)
    \/ \E c \in MainSlots, status \in Statuses, contentType \in ContentTypes :
            ResponseHeaders(c, status, contentType)
    \/ \E c \in MainSlots, text \in Bodies : BodyArrives(c, text)
    \/ \E c \in MainSlots : TransportFails(c)
    \/ \E c \in MainSlots : TimerFires(c)
    \/ \E c \in MainSlots : Release(c)

Spec == Init /\ [][Next]_vars

\* ------------------------------------------------ concurrent invocations
\* Every slot serves invocations, interleaved in any order.  The entry point
\* configures the store before it connects a transport, so setConfig runs
\* only while no invocation is being served.
ConcTools == { "score_basic", "report_fraud" }

ConcOverrides == { [timeoutMs |-> 50] }

ConcStatuses == { 200, 402, 500 }

ConcContentTypes == { ContentType(<<"application/json">>), ContentType(<<"image/svg+xml">>) }

ConcBodies == { JsonStringify(<< <<"instructions", "pay 0.10 USDC">> >>) }

NextConc ==
    \/ /\ \A c \in Slots : calls[c].pc = "idle"
       /\ \E ov \in ConcOverrides : SetConfig(ov)
    \/ \E c \in Slots, tool \in ConcTools, wallet \in Wallets : Invoke(c, tool, wallet)
    \/ \E c \in Slots, status \in ConcStatuses, contentType \in ConcContentTypes :
            ResponseHeaders(c, status, contentType)
    \/ \E c \in Slots, text \in ConcBodies : BodyArrives(c, text)
    \/ \E c \in Slots : TransportFails(c)
    \/ \E c \in Slots : TimerFires(c)
    \/ \E c \in Slots : Release(c)

SpecConc == Init /\ [][NextConc]_vars


\* =============================================================== claims
\* The kind of a failure, read off the error the caller receives.
Kind(error) ==
    IF error.cls # "ApiError" \/ error.message = <<>> THEN "Unclassified"
    ELSE IF error.statusCode = 402 /\ error.message[3] = "Details: "
         THEN "PaymentRequired"
    ELSE IF error.statusCode \notin {0, 402}
            /\ error.message[1] = "API request failed with status "
         THEN "HttpError"
    ELSE IF error.statusCode = 0 /\ error.message[1] = "Request timed out after "
         THEN "Timeout"
    ELSE IF error.statusCode = 0 /\ error.message[1] = "Network error: "
         THEN "NetworkError"
    ELSE "Unclassified"

Kinds == { "PaymentRequired", "HttpError", "Timeout", "NetworkError" }

Completed(c) == calls[c].pc = "done"

Failed(c) == Completed(c) /\ calls[c].outcome.t = "throw"

\* The response of the call of slot c arrived whole: headers and body.
ResponseArrived(c) == Completed(c) /\ calls[c].bodyRead

\* C1: every completed call of apiRequest has exactly one outcome, a returned
\* payload or a thrown ApiError of one of the four kinds; never an error that
\* is not classified.
C1_ExactlyOneClassifiedOutcome ==
    \A c \in Slots :
        Completed(c) =>
            \/ /\ calls[c].outcome.t = "return"
               /\ calls[c].outcome.error = NoError
            \/ /\ calls[c].outcome.t = "throw"
               /\ calls[c].outcome.payload = Undefined
               /\ calls[c].outcome.error.cls = "ApiError"
               /\ Kind(calls[c].outcome.error) \in Kinds

\* C2: once the timer of a call has fired, the request is aborted and the
\* call has failed with a Timeout of statusCode 0; in no later state does the
\* call carry the result of a response.
C2_TimeoutAbortsAndWins ==
    \A c \in Slots :
        calls[c].timer = "fired" =>
            /\ Completed(c)
            /\ calls[c].aborted
            /\ calls[c].outcome.t = "throw"
            /\ Kind(calls[c].outcome.error) = "Timeout"
            /\ calls[c].outcome.error.statusCode = 0
            /\ calls[c].outcome.payload = Undefined
            /\ ~calls[c].bodyRead

\* The timer fired after the response headers had arrived.
C2_Witness ==
    \E c \in Slots :
        /\ calls[c].timer = "fired"
        /\ calls[c].status = 200
        /\ Completed(c)

\* C3: a 402 response with any body text, to a GET or a POST, fails the call
\* with PaymentRequired, statusCode 402 and the body text in the message.
C3_PaymentRequired ==
    \A c \in Slots :
        (ResponseArrived(c) /\ calls[c].status = 402) =>
            /\ calls[c].outcome.t = "throw"
            /\ Kind(calls[c].outcome.error) = "PaymentRequired"
            /\ calls[c].outcome.error.statusCode = 402
            /\ Includes(calls[c].outcome.error.message, calls[c].bodyText)
            /\ calls[c].request.method \in {"GET", "POST"}

C3_Witness ==
    \E c \in Slots :
        /\ ResponseArrived(c)
        /\ calls[c].status = 402
        /\ calls[c].request.method = "POST"
        /\ calls[c].bodyText = JsonStringify(<< <<"instructions", "pay 0.10 USDC">> >>)

\* C4: a response whose status is neither 2xx nor 402 fails the call with
\* HttpError, the status as statusCode, and the status and the body text in
\* the message.
C4_HttpError ==
    \A c \in Slots :
        (ResponseArrived(c) /\ ~ResponseOk(calls[c].status) /\ calls[c].status # 402) =>
            /\ calls[c].outcome.t = "throw"
            /\ Kind(calls[c].outcome.error) = "HttpError"
            /\ calls[c].outcome.error.statusCode = calls[c].status
            /\ Includes(calls[c].outcome.error.message, <<NumToString(calls[c].status)>>)
            /\ Includes(calls[c].outcome.error.message, calls[c].bodyText)

C4_Witness ==
    \E c \in Slots :
        /\ ResponseArrived(c)
        /\ calls[c].status = 500
        /\ calls[c].outcome.error.statusCode = 500


\* The media type of the content-type header is application/json.
JsonContentType(contentType) ==
    contentType.present /\ Head(contentType.value) = "application/json"

\* C5: a 2xx response with a JSON content type whose body is the
\* serialisation of a value makes the call return that value, for every
\* descriptor.
C5_JsonRoundTrip ==
    \A c \in Slots :
        (ResponseArrived(c) /\ ResponseOk(calls[c].status)
            /\ JsonContentType(calls[c].contentType)) =>
            \A v \in Fixtures :
                calls[c].bodyText = JsonStringify(v) =>
                    calls[c].outcome = Return(Obj(v))

C5_Witness ==
    \E c \in Slots :
        /\ ResponseArrived(c)
        /\ calls[c].status = 200
        /\ calls[c].contentType = ContentType(<<"application/json", "; charset=utf-8">>)
        /\ calls[c].bodyText = JsonStringify(<< <<"score", "850">>, <<"tier", "Trusted">> >>)
        /\ calls[c].outcome.t = "return"

\* C6: a 2xx response whose content type is not JSON, or is missing, makes
\* the call return the raw body text, and response.json() is not called.
C6_RawTextForNonJson ==
    \A c \in Slots :
        (ResponseArrived(c) /\ ResponseOk(calls[c].status)
            /\ ~JsonContentType(calls[c].contentType)) =>
            /\ calls[c].outcome = Return(Str(calls[c].bodyText))
            /\ ~calls[c].jsonCalled

\* A body that would parse as JSON arrives without a content type.
C6_Witness ==
    \E c \in Slots :
        /\ ResponseArrived(c)
        /\ calls[c].status = 200
        /\ calls[c].contentType = NoContentType
        /\ JsonParse(calls[c].bodyText).ok
        /\ calls[c].outcome.t = "return"

\* C7: a failure has statusCode 0 exactly when the transport threw; it is a
\* Timeout exactly when the thrown error is the abort of the timeout, and a
\* NetworkError, wrapping the error, only when the transport failed.
C7_TransportFailuresOnly ==
    \A c \in Slots :
        (Failed(c) /\ calls[c].outcome.error.cls = "ApiError") =>
            /\ calls[c].outcome.error.statusCode = 0
                  <=> calls[c].caught.thrownBy \in {"transport", "abort"}
            /\ Kind(calls[c].outcome.error) = "Timeout"
                  <=> calls[c].caught.thrownBy = "abort"
            /\ Kind(calls[c].outcome.error) = "NetworkError"
                  => /\ calls[c].caught.thrownBy = "transport"
                     /\ Includes(calls[c].outcome.error.message, calls[c].caught.message)

\* C8: a call in flight has its one timer pending, and a completed call has
\* no pending timer, on every exit path.
C8_TimerReleased ==
    \A c \in Slots :
        /\ Completed(c) => calls[c].timer \in {"none", "cleared", "fired"}
        /\ Completed(c) /\ calls[c].request.sent => calls[c].timer \in {"cleared", "fired"}
        /\ calls[c].pc \in {"fetch", "text402", "textError", "json", "text"}
              => calls[c].timer = "pending"
        /\ calls[c].pc = "idle" => calls[c].timer = "none"

\* A call that failed below the HTTP layer released its timer.
C8_Witness ==
    \E c \in Slots :
        /\ Failed(c)
        /\ calls[c].caught.thrownBy = "transport"
        /\ calls[c].timer = "cleared"

\* C9: what a call shows is fixed by the configuration at its start: a
\* Timeout message states the delay its timer was armed with, whatever
\* setConfig did meanwhile.
C9_SnapshotDecides ==
    \A c \in Slots :
        (Failed(c) /\ Kind(calls[c].outcome.error) = "Timeout") =>
            calls[c].outcome.error.message = TimeoutMessage(calls[c].timerMs)

\* C10: an invocation calls apiRequest once and a call dispatches at most
\* one request, whatever its outcome.
C10_NoRetry ==
    \A c \in Slots :
        /\ calls[c].fetches <= 1
        /\ invocations[c].apiCalls <= 1
        /\ invocations[c].phase \in {"running", "returned"} =>
              /\ invocations[c].apiCalls = 1
              /\ calls[c].pc # "idle"
        /\ calls[c].request.sent <=> calls[c].fetches = 1

\* report_fraud returned after a transport failure, with one request sent.
C10_Witness ==
    \E c \in Slots :
        /\ invocations[c].phase = "returned"
        /\ invocations[c].tool = "report_fraud"
        /\ calls[c].caught.thrownBy = "transport"
        /\ calls[c].fetches = 1


\* The text carries the payload: a string as it is, an object with every
\* key and value, quoted, in its order.
Carries(text, payload) ==
    CASE payload.kind = "string" -> Includes(text, payload.str)
      [] payload.kind = "object" ->
            \A i \in 1..Len(payload.obj) :
                Includes(text, <<"\"", payload.obj[i][1], "\"", ": ",
                                 "\"", payload.obj[i][2], "\"">>)
      [] OTHER -> FALSE

\* C11: a tool handler that has returned left exactly one envelope: without
\* the error flag and carrying the payload when apiRequest returned, with
\* isError and one message when apiRequest threw anything; the envelope of a
\* 402 holds the body text of the 402 response.
C11_OneEnvelopePerToolCall ==
    \A c \in Slots :
        (invocations[c].phase = "returned" /\ invocations[c].tool \in Tools) =>
            /\ invocations[c].envelope.set
            /\ calls[c].outcome.t \in {"return", "throw"}
            /\ calls[c].outcome.t = "return" =>
                  /\ ~invocations[c].envelope.isError
                  /\ Carries(invocations[c].envelope.text, calls[c].outcome.payload)
            /\ calls[c].outcome.t = "throw" =>
                  /\ invocations[c].envelope.isError
                  /\ invocations[c].envelope.text # <<>>
                  /\ Includes(invocations[c].envelope.text, calls[c].outcome.error.message)
            /\ (calls[c].status = 402 /\ calls[c].bodyRead) =>
                  /\ invocations[c].envelope.isError
                  /\ Includes(invocations[c].envelope.text, calls[c].bodyText)

\* A paid tool answered by 402 returned its error envelope.
C11_Witness ==
    \E c \in Slots :
        /\ invocations[c].phase = "returned"
        /\ invocations[c].tool = "report_fraud"
        /\ calls[c].status = 402
        /\ calls[c].bodyRead
        /\ invocations[c].envelope.isError


\* C12: getConfig returns, for each field, the value of the latest setConfig
\* that provided the field, or the default when none did: setConfig merges
\* the fields it is given and preserves the others.
C12_SetConfigMerges ==
    /\ DOMAIN getConfig(config) = {"baseUrl", "timeoutMs"}
    /\ \A f \in {"baseUrl", "timeoutMs"} : getConfig(config)[f] = provided[f]

\* timeoutMs was overridden to 5000 and baseUrl, overridden before, is kept.
C12_Witness ==
    /\ getConfig(config).timeoutMs = 5000
    /\ getConfig(config).baseUrl = <<"https:", "//", "api.example">>


\* C13: the configuration is fully formed in every reachable state: both
\* fields are there, baseUrl is an absolute URL and timeoutMs is a positive
\* integer.
C13_ConfigFullyFormed ==
    /\ DOMAIN config = {"baseUrl", "timeoutMs"}
    /\ UrlParses(config.baseUrl)
    /\ config.timeoutMs \in Nat \ {0}

\* C14: the request handed to fetch has the two JSON headers, and carries
\* the serialisation of the body of the descriptor exactly when the
\* descriptor has a body.
C14_HeadersAndBody ==
    \A c \in Slots :
        calls[c].request.sent =>
            /\ calls[c].request.contentType = <<"application/json">>
            /\ calls[c].request.accept = <<"application/json">>
            /\ calls[c].request.hasBody <=> calls[c].opts.body.kind # "undefined"
            /\ calls[c].request.hasBody =>
                  calls[c].request.body = StringifyValue(calls[c].opts.body)


\* The outcome of a call that runs alone, from what happened to that call:
\* its own timer fired, its transport failed, or its response arrived.
AloneOutcome(call) ==
    IF ~call.request.sent THEN Throw(InvalidUrlError)
    ELSE IF call.timer = "fired"
         THEN Throw(ApiError(<<"Request timed out after ", NumToString(call.timerMs),
                              "ms. Try again or increase timeout.">>, 0))
    ELSE IF call.caught.thrownBy = "transport"
         THEN Throw(ApiError(<<"Network error: ">> \o call.caught.message, 0))
    ELSE IF ~call.bodyRead THEN Pending
    ELSE IF call.status = 402
         THEN Throw(ApiError(PaymentRequiredMessage(call.bodyText), 402))
    ELSE IF call.status < 200 \/ call.status > 299
         THEN Throw(ApiError(HttpErrorMessage(call.status, call.bodyText), call.status))
    ELSE IF JsonContentType(call.contentType)
         THEN IF JsonParse(call.bodyText).ok
              THEN Return(Obj(JsonParse(call.bodyText).value))
              ELSE Throw(ApiError(<<"Network error: ">> \o JsonSyntaxError.message, 0))
    ELSE Return(Str(call.bodyText))

\* C15: concurrent calls are independent: a call in flight keeps its own
\* pending timer and an unaborted signal whatever the other calls do, a
\* signal is aborted only by the timer of its own call, and a completed call
\* has the outcome it would have had alone.
C15_CallsIndependent ==
    \A c \in Slots :
        /\ InFlight(calls[c]) => calls[c].timer = "pending" /\ ~calls[c].aborted
        /\ calls[c].aborted <=> calls[c].timer = "fired"
        /\ calls[c].caught.thrownBy = "abort" <=> calls[c].timer = "fired"
        /\ Completed(c) => calls[c].outcome = AloneOutcome(calls[c])

\* One call timed out, another one, sent as well, returned its payload.
C15_Witness ==
    \E c, d \in Slots :
        /\ c # d
        /\ Completed(c) /\ calls[c].timer = "fired"
        /\ Completed(d) /\ calls[d].request.sent /\ calls[d].outcome.t = "return"

====
